---- MODULE Spec2Model ----
(***************************************************************************)
(* The ETL run of etl.py: main() opens a connection, runs process_data     *)
(* over the song directory with process_song_file and then over the log    *)
(* directory with process_log_file, and closes the connection.             *)
(*                                                                         *)
(* The database is a record of tables.  db is what has been committed,     *)
(* txn is what the open transaction sees (db plus its own writes).         *)
(* An exception is never caught in etl.py: it ends the run (pc "crashed")  *)
(* with txn left uncommitted.                                              *)
(***************************************************************************)
EXTENDS Integers, Sequences, FiniteSets, Bags, TLC

VARIABLES
    pc,         \* position of the run inside main / process_data / transformer
    phase,      \* "songs": first process_data call, "logs": second one
    conn,       \* "none" | "open" | "closed"
    db,         \* committed tables
    txn,        \* tables as seen inside the open transaction
    walked,     \* the directory tree os.walk is reading (while pc = "found")
    all_files,  \* process_data: the discovered paths
    num_files,  \* process_data: len(all_files)
    i,          \* process_data: enumerate index of the current file
    raw,        \* process_log_file: the frame read_json returned
    df,         \* transformer: the Series of a song file / the filtered frame
    stmts,      \* statements executed with success by the current transformer call
    out,        \* lines printed so far
    commits     \* conn.commit() calls that returned

vars == <<pc, phase, conn, db, txn, walked, all_files, num_files, i, raw, df,
          stmts, out, commits>>

\* Bounds: entries of a directory tree, lines of a log file.
MaxEntries == 2
MaxRecords == 2

NULL == "null"

-----------------------------------------------------------------------------
(* Directory trees.  A tree is a sequence of entries; entry k lives in      *)
(* directory parent (0 is the root handed to process_data, otherwise an     *)
(* earlier entry of kind "dir").  name is the class of the entry's name:    *)
(* "x.json", ".x.json" (extension json, leading dot) or "x.txt".  The index *)
(* order of the entries is the listing order of the file system.            *)

Kinds == {"file", "dir"}
Names == {"x.json", ".x.json", "x.txt"}

IsTree(t) ==
    \A k \in 1..Len(t) :
        \/ t[k].parent = 0
        \/ t[k].parent \in 1..(k - 1) /\ t[t[k].parent].kind = "dir"

EntrySet == [parent : 0..(MaxEntries - 1), kind : Kinds, name : Names]

Trees == { t \in UNION { [1..n -> EntrySet] : n \in 0..MaxEntries } : IsTree(t) }

RECURSIVE SortedSeq(_)
SortedSeq(S) ==
    IF S = {} THEN <<>>
    ELSE LET m == CHOOSE x \in S : \A y \in S : x <= y
         IN  <<m>> \o SortedSeq(S \ {m})

\* glob.glob(os.path.join(root, '*.json')): every entry of the directory,
\* of whatever kind, whose name ends in .json and does not begin with a dot.
GlobMatches(name) == name = "x.json"

Glob(t, d) ==
    SortedSeq({ k \in 1..Len(t) : t[k].parent = d /\ GlobMatches(t[k].name) })

SubDirs(t, d) ==
    SortedSeq({ k \in 1..Len(t) : t[k].parent = d /\ t[k].kind = "dir" })

\* os.walk(filepath), top down: the directory, then each subdirectory's walk.
RECURSIVE Walk(_, _), WalkEach(_, _)
Walk(t, d) == <<d>> \o WalkEach(t, SubDirs(t, d))
WalkEach(t, ds) ==
    IF ds = <<>> THEN <<>> ELSE Walk(t, Head(ds)) \o WalkEach(t, Tail(ds))

RECURSIVE GlobEach(_, _)
GlobEach(t, ds) ==
    IF ds = <<>> THEN <<>> ELSE Glob(t, Head(ds)) \o GlobEach(t, Tail(ds))

\* Lines 150-154: the paths appended to all_files, each with what it names.
Discover(t) ==
    LET ids == GlobEach(t, Walk(t, 0))
    IN  [n \in 1..Len(ids) |-> [id |-> ids[n], kind |-> t[ids[n]].kind]]

-----------------------------------------------------------------------------
(* Timestamps.  A ts value is an integer of up to 15 digits, kept as        *)
(* hi * 10^6 + lo so that every intermediate value stays below 2^31.       *)
(* A datetime is [sec, nano]: whole seconds since 1970-01-01T00:00:00Z and  *)
(* the nanoseconds inside the second.                                       *)

\* pd.to_datetime(series of int64) with no unit: the integers are
\* nanoseconds since the epoch.
to_datetime(ts) ==
    [sec |-> ts.hi \div 1000, nano |-> (ts.hi % 1000) * 1000000 + ts.lo]

DayOf(t) == t.sec \div 86400

\* Civil date of a day number (days since 1970-01-01), proleptic Gregorian.
Civil(z) ==
    LET zz  == z + 719468
        era == zz \div 146097
        doe == zz % 146097
        yoe == (doe - doe \div 1460 + doe \div 36524 - doe \div 146096) \div 365
        doy == doe - (365 * yoe + yoe \div 4 - yoe \div 100)
        mp  == (5 * doy + 2) \div 153
        d   == doy - (153 * mp + 2) \div 5 + 1
        m   == IF mp < 10 THEN mp + 3 ELSE mp - 9
        y   == yoe + era * 400 + (IF m <= 2 THEN 1 ELSE 0)
    IN  [year |-> y, month |-> m, day |-> d]

IsLeap(y) == (y % 4 = 0 /\ y % 100 # 0) \/ y % 400 = 0

DaysBefore(y, m) ==
    LET cum == <<0, 31, 59, 90, 120, 151, 181, 212, 243, 273, 304, 334>>
    IN  cum[m] + (IF m > 2 /\ IsLeap(y) THEN 1 ELSE 0)

\* Monday = 0 ... Sunday = 6; 1970-01-01 was a Thursday.
Weekday(z) == (z + 3) % 7

\* Weekday of 1 January of the year of day z.
Jan1Weekday(z, c) == Weekday(z - (DaysBefore(c.year, c.month) + c.day - 1))

LongYear(jan1, leap) == jan1 = 3 \/ (leap /\ jan1 = 2)

\* ISO 8601 week number of day z.
IsoWeek(z) ==
    LET c    == Civil(z)
        ord  == DaysBefore(c.year, c.month) + c.day
        wd   == Weekday(z)
        w    == (ord - (wd + 1) + 10) \div 7
        jan1 == Jan1Weekday(z, c)
        prevLeap == IsLeap(c.year - 1)
        prevJan1 == (jan1 + 7 * 53 - (IF prevLeap THEN 366 ELSE 365)) % 7
    IN  IF w < 1 THEN (IF LongYear(prevJan1, prevLeap) THEN 53 ELSE 52)
        ELSE IF w = 53 /\ ~LongYear(jan1, IsLeap(c.year)) THEN 1
        ELSE w

\* Lines 68-97: (start_time, hour, day, week, month, year, weekday) of a datetime.
TimeRow(t) ==
    LET z == DayOf(t)
        c == Civil(z)
    IN  <<t, (t.sec \div 3600) % 24, c.day, IsoWeek(z), c.month, c.year, Weekday(z)>>

-----------------------------------------------------------------------------
(* The database.  The statements themselves live in sql_queries, outside    *)
(* etl.py: their effect follows the documented schema                       *)
(* (songs, artists and time ignore a row whose key exists, users            *)
(* keep the last row written for a key, songplays and the raw artist names  *)
(* are insert-only).                                                        *)

EmptyDb ==
    [songs |-> {}, artists |-> {}, time |-> {}, users |-> {},
     songplays |-> EmptyBag, logartists |-> EmptyBag]

InsertNew(rows, row) ==
    IF \E r \in rows : r[1] = row[1] THEN rows ELSE rows \cup {row}

Upsert(rows, row) == { r \in rows : r[1] # row[1] } \cup {row}

Apply(t, s) ==
    CASE s.stmt = "song_table_insert" ->
            [t EXCEPT !.songs = InsertNew(@, s.params)]
      [] s.stmt = "artist_table_insert" ->
            [t EXCEPT !.artists = InsertNew(@, s.params)]
      [] s.stmt = "time_table_insert" ->
            [t EXCEPT !.time = InsertNew(@, s.params)]
      [] s.stmt = "user_table_insert" ->
            [t EXCEPT !.users = Upsert(@, s.params)]
      [] s.stmt = "songplay_table_insert" ->
            [t EXCEPT !.songplays = @ (+) SetToBag({s.params})]
      [] s.stmt = "logartist_table_insert" ->
            [t EXCEPT !.logartists = @ (+) SetToBag({s.params})]
      [] OTHER -> t

RECURSIVE ApplyAll(_, _)
ApplyAll(t, ss) ==
    IF ss = <<>> THEN t ELSE ApplyAll(Apply(t, Head(ss)), Tail(ss))

\* song_select: the (song_id, artist_id) pairs of the songs joined with their
\* artist that match title, artist name and duration exactly.
song_select(t, p) ==
    { <<s[1], a[1]>> : s \in { x \in t.songs : x[2] = p[1] /\ x[5] = p[3] },
                       a \in { y \in t.artists : y[2] = p[2] } }
    \cap { <<s[1], s[3]>> : s \in t.songs }

-----------------------------------------------------------------------------
(* Input files.                                                             *)

SongCols == <<"song_id", "title", "artist_id", "year", "duration">>
ArtistCols == <<"artist_id", "artist_name", "artist_location",
                "artist_latitude", "artist_longitude">>

Song1 ==
    [song_id |-> "S1", title |-> "X", artist_id |-> "A1", year |-> 2000,
     duration |-> 20000, artist_name |-> "Y", artist_location |-> "L",
     artist_latitude |-> 1, artist_longitude |-> 2]

Song2 == [Song1 EXCEPT !.song_id = "S2"]

Without(f, k) == [x \in (DOMAIN f) \ {k} |-> f[x]]

\* What a song file may hold: a full record, a second song of the same
\* title, artist and duration, and records lacking one required field.
SongFileSet ==
    {Song1, Song2, Without(Song1, "artist_name"), Without(Song1, "duration")}

LogRecord(page, ts, level, song, artist, length) ==
    [page |-> page, ts |-> ts, userId |-> 8, firstName |-> "F",
     lastName |-> "N", gender |-> "M", level |-> level, song |-> song,
     artist |-> artist, length |-> length, sessionId |-> 139,
     location |-> "L", userAgent |-> "UA"]

\* ts 1541207073796, 1542837407796 and 180000000000000.
RecordSet ==
    { LogRecord("NextSong", [hi |-> 1541207, lo |-> 73796], "free", "X", "Y", 20000),
      LogRecord("Login", [hi |-> 1542837, lo |-> 407796], "free", NULL, NULL, NULL),
      LogRecord("NextSong", [hi |-> 180000000, lo |-> 0], "paid", "X", "Y", 20001) }

LogFileSet == UNION { [1..n -> RecordSet] : n \in 1..MaxRecords }

-----------------------------------------------------------------------------
(* process_song_file                                                        *)

Has(f, cols) == \A n \in 1..Len(cols) : cols[n] \in DOMAIN f

\* df[[...]].values
Select(f, cols) == [n \in 1..Len(cols) |-> f[cols[n]]]

Statement(name, params, rec) == [stmt |-> name, params |-> params, rec |-> rec]

\* Variant of SongStatements: the two inserts in the opposite order.
SongStatementsSwapped(f) ==
    IF ~Has(f, ArtistCols) THEN <<>>
    ELSE IF ~Has(f, SongCols)
         THEN <<Statement("artist_table_insert", Select(f, ArtistCols), 0)>>
         ELSE <<Statement("artist_table_insert", Select(f, ArtistCols), 0),
                Statement("song_table_insert", Select(f, SongCols), 0)>>

\* Lines 25-42: the statements handed to cur.execute, in order, up to the
\* first selection that raises KeyError.
SongStatements(f) ==
    IF ~Has(f, SongCols) THEN <<>>
    ELSE IF ~Has(f, ArtistCols)
         THEN <<Statement("song_table_insert", Select(f, SongCols), 0)>>
         ELSE <<Statement("song_table_insert", Select(f, SongCols), 0),
                Statement("artist_table_insert", Select(f, ArtistCols), 0)>>

SongKeyError(f) == ~Has(f, SongCols) \/ ~Has(f, ArtistCols)

-----------------------------------------------------------------------------
(* process_log_file                                                         *)

\* Variant of Filtered: no filter on page.
FilteredAll(lines) == [n \in 1..Len(lines) |-> [idx |-> n, row |-> lines[n]]]

\* Line 61: the rows whose page is NextSong, each under its original index.
Filtered(lines) ==
    LET idxs == SortedSeq({ k \in 1..Len(lines) : lines[k].page = "NextSong" })
    IN  [n \in 1..Len(idxs) |-> [idx |-> idxs[n], row |-> lines[idxs[n]]]]

\* Lines 99-100.
TimeStatements(rows) ==
    [n \in 1..Len(rows) |->
        Statement("time_table_insert", TimeRow(to_datetime(rows[n].row.ts)),
                  rows[n].idx)]

\* Lines 103-113.
UserStatements(rows) ==
    [n \in 1..Len(rows) |->
        Statement("user_table_insert",
                  <<rows[n].row.userId, rows[n].row.firstName,
                    rows[n].row.lastName, rows[n].row.gender,
                    rows[n].row.level>>,
                  rows[n].idx)]

None == <<>>

\* cur.fetchone(): a row of the result, whichever the database gives first,
\* or None when the result is empty.
Fetchone(result) == IF result = {} THEN {None} ELSE result

\* Variant of Resolve: the artist id of the fetched row is dropped.
ResolveSongOnly(results) ==
    IF results # None THEN <<results[1], NULL>> ELSE <<NULL, NULL>>

\* Lines 123-126.
Resolve(results) == IF results # None THEN results ELSE <<NULL, NULL>>

SelectParams(r) == <<r.row.song, r.row.artist, r.row.length>>

\* Variant of SongplayStatements: the raw artist name is inserted before
\* the songplay row.
SongplayStatementsArtistFirst(r, results) ==
    LET ids == Resolve(results)
    IN  << Statement("song_select", SelectParams(r), r.idx),
           Statement("logartist_table_insert", <<r.row.artist>>, r.idx),
           Statement("songplay_table_insert",
                     <<to_datetime(r.row.ts), r.row.userId, r.row.level,
                       ids[1], ids[2], r.row.sessionId, r.row.location,
                       r.row.userAgent>>,
                     r.idx) >>

\* Variant of SongplayStatements: the raw artist name goes through the
\* artists insert.
SongplayStatementsIntoArtists(r, results) ==
    LET ids == Resolve(results)
    IN  << Statement("song_select", SelectParams(r), r.idx),
           Statement("songplay_table_insert",
                     <<to_datetime(r.row.ts), r.row.userId, r.row.level,
                       ids[1], ids[2], r.row.sessionId, r.row.location,
                       r.row.userAgent>>,
                     r.idx),
           Statement("artist_table_insert",
                     <<r.row.artist, r.row.artist, NULL, NULL, NULL>>, r.idx) >>

\* Lines 119-143 for one row, given what fetchone returned.
SongplayStatements(r, results) ==
    LET ids == Resolve(results)
    IN  << Statement("song_select", SelectParams(r), r.idx),
           Statement("songplay_table_insert",
                     <<to_datetime(r.row.ts), r.row.userId, r.row.level,
                       ids[1], ids[2], r.row.sessionId, r.row.location,
                       r.row.userAgent>>,
                     r.idx),
           Statement("logartist_table_insert", <<r.row.artist>>, r.idx) >>

\* Lines 116-143: every statement sequence the loop can issue from tables t.
RECURSIVE PlayLoop(_, _)
PlayLoop(t, rows) ==
    IF rows = <<>> THEN {<<>>}
    ELSE UNION {
            LET ss == SongplayStatements(Head(rows), res)
            IN  { ss \o rest : rest \in PlayLoop(ApplyAll(t, ss), Tail(rows)) }
            : res \in Fetchone(song_select(t, SelectParams(Head(rows)))) }

\* Lines 99-143.
LogStatements(t, rows) ==
    LET first == TimeStatements(rows) \o UserStatements(rows)
    IN  { first \o plays : plays \in PlayLoop(ApplyAll(t, first), rows) }

-----------------------------------------------------------------------------
(* The run.                                                                 *)

Init ==
    /\ pc = "connect"
    /\ phase = "songs"
    /\ conn = "none"
    /\ db = EmptyDb
    /\ txn = EmptyDb
    /\ walked = <<>>
    /\ all_files = <<>>
    /\ num_files = 0
    /\ i = 0
    /\ raw = <<>>
    /\ df = <<>>
    /\ stmts = <<>>
    /\ out = <<>>
    /\ commits = 0

\* Variant of Raise: the transaction is committed on the way out.
RaiseCommitting ==
    /\ pc' = "crashed"
    /\ db' = txn'
    /\ commits' = commits + 1
    /\ UNCHANGED <<phase, conn, all_files, num_files, i, out, walked>>

\* An exception leaves the function; nothing in etl.py catches it.
Raise ==
    /\ pc' = "crashed"
    /\ UNCHANGED <<phase, conn, db, all_files, num_files, i, out, commits, walked>>

\* Line 170.
Connect ==
    /\ pc = "connect"
    /\ \/ /\ conn' = "open"
          /\ pc' = "walk"
          /\ UNCHANGED <<phase, db, txn, walked, all_files, num_files, i, raw,
                         df, stmts, out, commits>>
       \/ /\ UNCHANGED <<txn, raw, df, stmts>>
          /\ Raise

\* Lines 150-154.
WalkFiles ==
    /\ pc = "walk"
    /\ \E t \in Trees :
        /\ walked' = t
        /\ all_files' = Discover(t)
    /\ pc' = "found"
    /\ UNCHANGED <<phase, conn, db, txn, num_files, i, raw, df, stmts, out, commits>>

\* Variant of Advance: the loop stops one file early.
AdvanceEarly(k, n) ==
    IF k + 1 < n
    THEN pc' = "call" /\ i' = k + 1 /\ phase' = phase
    ELSE /\ i' = k
         /\ IF phase = "songs"
            THEN pc' = "walk" /\ phase' = "logs"
            ELSE pc' = "close" /\ phase' = phase

\* The for statement of line 161 after file k of n; past the last file
\* process_data returns to main (lines 173-176).
Advance(k, n) ==
    IF k < n
    THEN pc' = "call" /\ i' = k + 1 /\ phase' = phase
    ELSE /\ i' = k
         /\ IF phase = "songs"
            THEN pc' = "walk" /\ phase' = "logs"
            ELSE pc' = "close" /\ phase' = phase

\* Lines 157-158.  The walk is over: from here on only all_files is read.
Found ==
    /\ pc = "found"
    /\ num_files' = Len(all_files)
    /\ out' = Append(out, <<"found", Len(all_files)>>)
    /\ walked' = <<>>
    /\ Advance(0, Len(all_files))
    /\ UNCHANGED <<conn, db, txn, all_files, raw, df, stmts, commits>>

\* The statements of ss that cur.execute ran: all of them, or those before
\* the one that raised.
Executed(ss, failAt) == IF failAt = 0 THEN ss ELSE SubSeq(ss, 1, failAt - 1)

\* Line 162 with func = process_song_file.
ProcessSongFile ==
    /\ pc = "call"
    /\ phase = "songs"
    /\ \/ /\ UNCHANGED <<txn, raw, df, stmts>>
          /\ Raise          \* read_json raises: a directory, not valid JSON
       \/ /\ all_files[i].kind = "file"
          /\ \E f \in SongFileSet :
             \E failAt \in 0..Len(SongStatements(f)) :
                LET ss == Executed(SongStatements(f), failAt)
                IN  /\ df' = f
                    /\ stmts' = ss
                    /\ txn' = ApplyAll(txn, ss)
                    /\ IF failAt = 0 /\ ~SongKeyError(f)
                       THEN /\ pc' = "commit"
                            /\ UNCHANGED <<phase, conn, db, all_files,
                                           num_files, i, out, commits, walked>>
                       ELSE Raise
          /\ UNCHANGED raw

\* Line 162 with func = process_log_file.
ProcessLogFile ==
    /\ pc = "call"
    /\ phase = "logs"
    /\ \/ /\ UNCHANGED <<txn, raw, df, stmts>>
          /\ Raise          \* read_json raises, or the frame has no page column
       \/ /\ all_files[i].kind = "file"
          /\ \E lines \in LogFileSet :
             \E all \in LogStatements(txn, Filtered(lines)) :
             \E failAt \in 0..Len(all) :
                LET ss == Executed(all, failAt)
                IN  /\ raw' = lines
                    /\ df' = Filtered(lines)
                    /\ stmts' = ss
                    /\ txn' = ApplyAll(txn, ss)
                    /\ IF failAt = 0
                       THEN /\ pc' = "commit"
                            /\ UNCHANGED <<phase, conn, db, all_files,
                                           num_files, i, out, commits, walked>>
                       ELSE Raise

\* Line 163.
Commit ==
    /\ pc = "commit"
    /\ \/ /\ db' = txn
          /\ commits' = commits + 1
          /\ pc' = "print"
          /\ UNCHANGED <<phase, conn, txn, walked, all_files, num_files, i,
                         raw, df, stmts, out>>
       \/ /\ UNCHANGED <<txn, raw, df, stmts>>
          /\ Raise

\* Line 164, and the next turn of the loop.
Progress ==
    /\ pc = "print"
    /\ out' = Append(out, <<"processed", i, num_files>>)
    /\ raw' = <<>>
    /\ df' = <<>>
    /\ stmts' = <<>>
    /\ Advance(i, num_files)
    /\ UNCHANGED <<conn, db, txn, walked, all_files, num_files, commits>>

\* Line 176.
Close ==
    /\ pc = "close"
    /\ conn' = "closed"
    /\ pc' = "done"
    /\ UNCHANGED <<phase, db, txn, walked, all_files, num_files, i, raw, df,
                   stmts, out, commits>>

Next ==
    \/ Connect
    \/ WalkFiles
    \/ Found
    \/ ProcessSongFile
    \/ ProcessLogFile
    \/ Commit
    \/ Progress
    \/ Close

Spec == Init /\ [][Next]_vars

-----------------------------------------------------------------------------
(* Properties.                                                              *)

Positions(name, k) ==
    { n \in DOMAIN stmts : stmts[n].stmt = name /\ stmts[n].rec = k }

LogInserts ==
    {"time_table_insert", "user_table_insert", "songplay_table_insert",
     "logartist_table_insert"}

IsProcessed(l) == l[1] = "processed"
IsFound(l) == l[1] = "found"

\* C1: when the transformer raises for file k, no commit is made for that
\* file and the committed tables stay as they were (none of the file's writes
\* persist, the writes of the files committed before remain), and the run
\* takes no further step: no later file is handed to the transformer.
C1_Atomicity ==
    [][ /\ (pc = "call" /\ pc' = "crashed") =>
               (db' = db /\ commits' = commits /\ out' = out /\ i' = i)
        /\ pc # "crashed" ]_vars

\* C1 witness: the second log file of a call raised after some statements
\* ran, with the first file's rows committed.
C1_Witness ==
    /\ pc = "crashed"
    /\ phase = "logs"
    /\ i = 2
    /\ stmts # <<>>
    /\ txn # db
    /\ db.songplays # EmptyBag

\* C2: whenever the run has ended, normally or by an exception, a connection
\* that main opened is closed.
C2_ClosedOnEveryExit ==
    (pc \in {"done", "crashed"} /\ conn # "none") => conn = "closed"

\* C3: process_log_file issues one Time, User, Songplay and LogArtist insert
\* and one lookup for each record whose page is NextSong, and no statement
\* for any other record; a file without such a record gives no statement.
C3_OnlyNextSong ==
    phase = "logs" =>
        /\ \A n \in DOMAIN stmts :
              /\ stmts[n].rec \in DOMAIN raw
              /\ raw[stmts[n].rec].page = "NextSong"
        /\ pc \in {"commit", "print"} =>
              \A k \in DOMAIN raw :
              \A name \in LogInserts \cup {"song_select"} :
                  Cardinality(Positions(name, k)) =
                      IF raw[k].page = "NextSong" THEN 1 ELSE 0

\* C3 witness: a log file with a NextSong line and a Login line has been
\* transformed.
C3_Witness ==
    /\ phase = "logs"
    /\ pc = "commit"
    /\ \E k \in DOMAIN raw : raw[k].page = "Login"
    /\ \E k \in DOMAIN raw : raw[k].page = "NextSong"
    /\ Len(stmts) = 5

\* The Songplay statements among stmts.
Songplays == { n \in DOMAIN stmts : stmts[n].stmt = "songplay_table_insert" }

\* The (song_id, artist_id) pairs that match the record of statement n in
\* the Song and Artist rows the transaction sees.
MatchesOf(n) == song_select(txn, SelectParams([row |-> raw[stmts[n].rec]]))

IdsOf(n) == <<stmts[n].params[4], stmts[n].params[5]>>

C5_StatementOrder ==
    phase = "logs" =>
        /\ \A b \in DOMAIN stmts :
              /\ stmts[b].stmt = "songplay_table_insert" =>
                    /\ \E a \in 1..(b - 1) :
                          a \in Positions("time_table_insert", stmts[b].rec)
                    /\ \E a \in 1..(b - 1) :
                          a \in Positions("user_table_insert", stmts[b].rec)
              /\ stmts[b].stmt = "logartist_table_insert" =>
                    \E a \in 1..(b - 1) :
                        a \in Positions("songplay_table_insert", stmts[b].rec)
        /\ \A a, b \in DOMAIN stmts :
              (a < b /\ stmts[a].stmt = stmts[b].stmt) =>
                  stmts[a].rec < stmts[b].rec
        /\ \A b \in DOMAIN stmts :
           \A k \in 1..(stmts[b].rec - 1) :
              (stmts[b].stmt \in LogInserts /\ raw[k].page = "NextSong") =>
                  \E a \in 1..(b - 1) : a \in Positions(stmts[b].stmt, k)

\* C5 witness: a log file with two qualifying records has been transformed.
C5_Witness ==
    /\ phase = "logs"
    /\ pc = "commit"
    /\ Len(df) = 2
    /\ Len(stmts) = 10

\* The index in out of the last "found" line (0 when there is none).
LastFound ==
    LET found == { n \in DOMAIN out : IsFound(out[n]) }
    IN  IF found = {} THEN 0 ELSE CHOOSE n \in found : \A m \in found : m <= n

\* C6: a log file's statement is executed only after every discovered song
\* file has been transformed, committed and reported; inside a call the
\* files are taken one at a time in discovery order, each file's commit is
\* made before its i/N line is printed and before the next file starts, and
\* there is one commit for each file done.
C6_RunSequencing ==
    /\ phase = "logs" =>
          /\ Len(out) >= 1 + out[1][2]
          /\ IsFound(out[1])
          /\ \A k \in 1..out[1][2] : out[k + 1] = <<"processed", k, out[1][2]>>
          /\ commits >= out[1][2]
    /\ (\E n \in DOMAIN stmts : stmts[n].stmt \in LogInserts \cup {"song_select"})
          => phase = "logs"
    /\ commits = Len(SelectSeq(out, IsProcessed)) + (IF pc = "print" THEN 1 ELSE 0)
    /\ pc \in {"call", "commit", "print"} =>
          /\ LastFound > 0
          /\ out[LastFound] = <<"found", num_files>>
          /\ num_files = Len(all_files)
          /\ i \in 1..num_files
          /\ Len(out) - LastFound = i - 1
          /\ \A k \in 1..(i - 1) : out[LastFound + k] = <<"processed", k, num_files>>
    /\ pc = "call" => (stmts = <<>> /\ txn = db)
    /\ pc \in {"close", "done"} =>
          /\ Len(out) - LastFound = num_files
          /\ num_files = Len(all_files)

\* C6 witness: two song files were committed and reported, and the second
\* log file has just been committed.
C6_Witness ==
    /\ phase = "logs"
    /\ pc = "print"
    /\ i = 2
    /\ out[1] = <<"found", 2>>
    /\ commits = 4
    /\ stmts # <<>>

\* The UTC calendar fields (hour, day, week, month, year, weekday) of the
\* instant ts milliseconds after the epoch.  ts in units of 100 seconds is
\* hi * 10 + lo \div 100000; a day has 864 such units and an hour 36.
UtcFieldsOfMillis(ts) ==
    LET u == ts.hi * 10 + ts.lo \div 100000
        z == u \div 864
        c == Civil(z)
    IN  <<(u % 864) \div 36, c.day, IsoWeek(z), c.month, c.year, Weekday(z)>>

\* C7: the Time row inserted for a record holds the UTC calendar fields of
\* the instant ts milliseconds after the epoch (ts = 1541207073796 gives
\* 2018-11-03), and records with the same ts give the same row.
C7_TimeRowOfMillis ==
    phase = "logs" =>
        /\ \A n \in DOMAIN stmts :
              stmts[n].stmt = "time_table_insert" =>
                  SubSeq(stmts[n].params, 2, 7) =
                      UtcFieldsOfMillis(raw[stmts[n].rec].ts)
        /\ \A n, m \in DOMAIN stmts :
              ( /\ stmts[n].stmt = "time_table_insert"
                /\ stmts[m].stmt = "time_table_insert"
                /\ raw[stmts[n].rec].ts = raw[stmts[m].rec].ts )
              => stmts[n].params = stmts[m].params

\* C8: a song file with every required field gives exactly the Song insert
\* with (song_id, title, artist_id, year, duration) and then the Artist
\* insert with (artist_id, artist_name, artist_location, artist_latitude,
\* artist_longitude); a file lacking a required field makes the transformer
\* raise, with nothing committed.
C8_SongFileStatements ==
    [][ (pc = "call" /\ phase = "songs" /\ df' # <<>>) =>
            LET f == df'
                song == Statement("song_table_insert",
                            <<f.song_id, f.title, f.artist_id, f.year,
                              f.duration>>, 0)
                artist == Statement("artist_table_insert",
                            <<f.artist_id, f.artist_name, f.artist_location,
                              f.artist_latitude, f.artist_longitude>>, 0)
            IN  IF DOMAIN f = DOMAIN Song1
                THEN /\ pc' = "commit" => stmts' = <<song, artist>>
                     /\ stmts' \in {<<>>, <<song>>, <<song, artist>>}
                ELSE /\ pc' = "crashed"
                     /\ db' = db
                     /\ commits' = commits ]_vars

\* C8 witness: a complete song file has been transformed into its two
\* statements.
C8_Witness ==
    /\ phase = "songs"
    /\ pc = "commit"
    /\ DOMAIN df = DOMAIN Song1
    /\ Len(stmts) = 2
    /\ stmts[1].stmt = "song_table_insert"

\* C9: discovery returns the regular files whose name matches the filter, at
\* any depth, each once and nothing else; with no such file the list is
\* empty.
C9_DiscoversMatchingFiles ==
    pc = "found" =>
        LET wanted == { k \in DOMAIN walked :
                          walked[k].kind = "file" /\ GlobMatches(walked[k].name) }
        IN  /\ { all_files[n].id : n \in DOMAIN all_files } = wanted
            /\ Len(all_files) = Cardinality(wanted)
            /\ wanted = {} => all_files = <<>>

\* A transformer step leaves the other transformer's tables alone, and no
\* step of the log run changes the committed Song and Artist rows.
FrameStep ==
    /\ (pc = "call" /\ phase = "logs") =>
          (txn'.songs = txn.songs /\ txn'.artists = txn.artists)
    /\ (pc = "call" /\ phase = "songs") =>
          /\ txn'.time = txn.time
          /\ txn'.users = txn.users
          /\ txn'.songplays = txn.songplays
          /\ txn'.logartists = txn.logartists
    /\ phase = "logs" =>
          (db'.songs = db.songs /\ db'.artists = db.artists)

TripleOf(n) == SelectParams([row |-> raw[stmts[n].rec]])

\* The id pairs a lookup of triple p may resolve to over tables t.
ResolvedSet(t, p) ==
    IF song_select(t, p) = {} THEN {<<NULL, NULL>>} ELSE song_select(t, p)

SameTripleSameIds ==
    \A n, m \in Songplays : TripleOf(n) = TripleOf(m) => IdsOf(n) = IdsOf(m)

====
